---------------------------- MODULE Spec2Model ----------------------------
(* Model of workcode-drc-rag: the two structured lookups into data.yaml     *)
(* (get_work_code_structure, get_article_by_number) and the App Check       *)
(* guard of POST /agent/chat/stream.                                        *)
(*                                                                          *)
(* Python values are records tagged by "t":                                 *)
(*   None  [t |-> "none"]            int   [t |-> "int", i |-> k]           *)
(*   float [t |-> "float", ip, fr]   (ip: integral part, fr: has fraction)  *)
(*   inf   [t |-> "inf"]             (float("inf"))                         *)
(*   str   [t |-> "str", s |-> tokens]                                      *)
(*   list  [t |-> "list", xs |-> elements]                                  *)
(*   dict  [t |-> "dict", kv |-> <<key, value>> pairs in insertion order]   *)
(*   tuple [t |-> "tuple", xs |-> elements]                                 *)
(* A str is the sequence of its tokens; its text is their concatenation.    *)
(* In the strings of a document "_", " " and "\n" are tokens of their own,   *)
(* so split("_"), strip() and "\n".join() are computed on the tokens.       *)
(* A raised exception is [t |-> "raise", exc |-> name].                     *)
EXTENDS Integers, Sequences, FiniteSets, TLC

VARIABLES
    data,      \* what load_data returns for data.yaml
    call,      \* the last tool call: its name and argument
    result,    \* what that call returned or raised
    location,  \* what _find_article_location returned within it (None: not reached)
    fbApp,     \* the process holds firebase_admin's default app
    req,       \* the HTTP request being served (None: idle)
    resp,      \* the response to it so far
    callers    \* per concurrent caller of the tools: its call in progress and its locals

vars == <<data, call, result, location, fbApp, req, resp, callers>>

toolVars == <<data, call, result, location>>

httpVars == <<fbApp, req, resp>>

callerVars == <<callers>>

-----------------------------------------------------------------------------
(* Bounds of the model.                                                     *)

\* article numbers of the model's documents are 1..MaxN
MaxN == 2

\* a document's outline holds at most MaxNodes containers (titles + chapters + sections)
MaxNodes == 4

\* the article lists of a document's outline hold at most MaxEntries entries in all
MaxEntries == 2

\* at most MaxRequests HTTP requests are served
MaxRequests == 2

\* an agent stream yields at most MaxEvents events
MaxEvents == 2

\* concurrent callers of the tools
MaxCallers == 2

\* containers of the outlines the concurrent callers read
MaxSharedNodes == 2

-----------------------------------------------------------------------------
(* Python values.                                                           *)

None_ == [t |-> "none"]

Int_(k) == [t |-> "int", i |-> k]

Float_(k, f) == [t |-> "float", ip |-> k, fr |-> f]

Inf_ == [t |-> "inf"]

Str_(toks) == [t |-> "str", s |-> toks]

List_(xs) == [t |-> "list", xs |-> xs]

Dict_(kv) == [t |-> "dict", kv |-> kv]

Tuple_(xs) == [t |-> "tuple", xs |-> xs]

Raise(e) == [t |-> "raise", exc |-> e]

IsRaise(v) == v.t = "raise"

IsStr(v) == v.t = "str"

IsDict(v) == v.t = "dict"

IsList(v) == v.t = "list"

\* bool(v)
Truthy(v) ==
    CASE v.t = "none" -> FALSE
      [] v.t = "int" -> v.i # 0
      [] v.t = "float" -> v.ip # 0 \/ v.fr
      [] v.t = "inf" -> TRUE
      [] v.t = "str" -> v.s # <<>>
      [] v.t = "list" -> v.xs # <<>>
      [] v.t = "tuple" -> v.xs # <<>>
      [] v.t = "dict" -> v.kv # <<>>

Whitespace == {" ", "\n"}

RECURSIVE LStrip(_)
LStrip(toks) ==
    IF toks # <<>> /\ Head(toks) \in Whitespace THEN LStrip(Tail(toks)) ELSE toks

RECURSIVE RStrip(_)
RStrip(toks) ==
    IF toks # <<>> /\ toks[Len(toks)] \in Whitespace
    THEN RStrip(SubSeq(toks, 1, Len(toks) - 1))
    ELSE toks

\* str.strip() on the tokens
Strip(toks) == RStrip(LStrip(toks))

\* the integers int() can read from a decimal token
ParseRange == (0 - 1) .. (MaxN + 2)

\* int(s) for a str: the value, or ValueError
IntOfStr(toks) ==
    LET body == Strip(toks) IN
    IF Len(body) = 1 /\ \E k \in ParseRange : ToString(k) = body[1]
    THEN Int_(CHOOSE k \in ParseRange : ToString(k) = body[1])
    ELSE Raise("ValueError")

\* int(v)
PyInt(v) ==
    CASE v.t = "int" -> v
      [] v.t = "float" -> Int_(v.ip)
      [] v.t = "inf" -> Raise("OverflowError")
      [] v.t = "str" -> IntOfStr(v.s)
      [] OTHER -> Raise("TypeError")

\* str(v), as tokens
PyStr(v) ==
    CASE v.t = "str" -> v.s
      [] v.t = "int" -> <<ToString(v.i)>>
      [] v.t = "none" -> <<"None">>
      [] v.t = "float" -> <<ToString(v.ip), IF v.fr THEN ".5" ELSE ".0">>
      [] v.t = "inf" -> <<"inf">>
      [] v.t = "list" -> <<"[...]">>
      [] v.t = "tuple" -> <<"(...)">>
      [] v.t = "dict" -> <<"{...}">>

RECURSIVE JoinWith(_, _)
\* sep.join(parts) for a sequence of token sequences
JoinWith(sep, parts) ==
    IF parts = <<>> THEN <<>>
    ELSE IF Len(parts) = 1 THEN parts[1]
    ELSE parts[1] \o sep \o JoinWith(sep, Tail(parts))

RECURSIVE DictLookup(_, _, _)
DictLookup(kv, k, default) ==
    IF kv = <<>> THEN default
    ELSE IF kv[1][1] = k THEN kv[1][2]
    ELSE DictLookup(Tail(kv), k, default)

\* d.get(k, default)
DictGet(d, k, default) == DictLookup(d.kv, k, default)

K(name) == Str_(<<name>>)

-----------------------------------------------------------------------------
(* work_code_functools: shared helpers.                                     *)

\* _first_key: next(iter(d.keys()))
FirstKey(d) == d.kv[1][1]

\* the entry is skipped: `not isinstance(item, dict) or not item`
Skipped(item) == ~IsDict(item) \/ item.kv = <<>>

\* item.get(key, {}) or {}
PayloadOf(item) ==
    LET v == DictGet(item, FirstKey(item), Dict_(<<>>)) IN
    IF Truthy(v) THEN v ELSE Dict_(<<>>)

RECURSIVE AfterLastUnderscore(_)
AfterLastUnderscore(toks) ==
    IF \E i \in 1..Len(toks) : toks[i] = "_"
    THEN AfterLastUnderscore(Tail(toks))
    ELSE toks

\* _suffix_number: key.split("_")[-1]; a key that is no str has no split
SuffixNumber(key) ==
    IF IsStr(key) THEN Str_(AfterLastUnderscore(key.s)) ELSE Raise("AttributeError")

\* _as_list
AsList(value) == IF IsList(value) THEN value.xs ELSE <<>>

\* payload.get(field): a payload that is no dict has no get
PayloadGet(payload, field, default) ==
    IF IsDict(payload) THEN DictGet(payload, K(field), default) ELSE Raise("AttributeError")

\* _format_article_numbers: ", ".join(str(x) for x in article_numbers)
FormatArticleNumbers(xs) ==
    JoinWith(<<", ">>, [i \in 1..Len(xs) |-> PyStr(xs[i])])

\* _as_int: int(value), None on TypeError or ValueError
AsInt(value) ==
    LET r == PyInt(value) IN
    IF IsRaise(r) /\ r.exc \in {"TypeError", "ValueError"} THEN None_ ELSE r

\* the first exception raised while _as_int runs over xs, or None
AsIntRaise(xs) ==
    LET bad == {i \in 1..Len(xs) : IsRaise(AsInt(xs[i]))} IN
    IF bad = {} THEN None_
    ELSE AsInt(xs[CHOOSE i \in bad : \A j \in bad : i <= j])

\* the first element of xs alone is compared
IntsOfFirst(xs) == {AsInt(xs[i]).i : i \in {j \in 1..Len(xs) : j = 1 /\ AsInt(xs[j]).t = "int"}}

\* {x for x in (_as_int(a) for a in xs) if x is not None}
IntsOf(xs) == {AsInt(xs[i]).i : i \in {j \in 1..Len(xs) : AsInt(xs[j]).t = "int"}}

SetMin(S) == CHOOSE m \in S : \A k \in S : m <= k

SetMax(S) == CHOOSE m \in S : \A k \in S : m >= k

\* _min_max_int
MinMaxInt(xs) ==
    LET ints == IntsOf(xs) IN
    IF ints = {} THEN <<None_, None_>>
    ELSE <<Int_(SetMin(ints)), Int_(SetMax(ints))>>

SansNom == <<"(sans nom)">>

\* (payload.get("name", "") or "").strip() or "(sans nom)"      [lookup]
NameLenient(payload) ==
    LET v == PayloadGet(payload, "name", Str_(<<>>)) IN
    IF IsRaise(v) THEN v
    ELSE IF ~Truthy(v) THEN Str_(SansNom)
    ELSE IF ~IsStr(v) THEN Raise("AttributeError")
    ELSE IF Strip(v.s) = <<>> THEN Str_(SansNom)
    ELSE Str_(Strip(v.s))

\* payload.get("name", "").strip() or "(sans nom)"              [outline]
NameStrict(payload) ==
    LET v == PayloadGet(payload, "name", Str_(<<>>)) IN
    IF IsRaise(v) THEN v
    ELSE IF ~IsStr(v) THEN Raise("AttributeError")
    ELSE IF Strip(v.s) = <<>> THEN Str_(SansNom)
    ELSE Str_(Strip(v.s))

-----------------------------------------------------------------------------
(* get_article_by_number.                                                   *)

RECURSIVE ArticleTextFrom(_, _, _)
ArticleTextFrom(items, i, n) ==
    IF i > Len(items) THEN None_
    ELSE IF Skipped(items[i]) THEN ArticleTextFrom(items, i + 1, n)
    ELSE
        LET key == FirstKey(items[i])
            suffix == SuffixNumber(key)
        IN
        IF IsRaise(suffix) THEN suffix
        ELSE IF AsInt(suffix) = Int_(n)
        THEN LET value == DictGet(items[i], key, None_) IN
             IF IsStr(value) THEN Str_(Strip(value.s)) ELSE Str_(PyStr(value))
        ELSE ArticleTextFrom(items, i + 1, n)

\* _article_text_by_number
ArticleTextByNumber(d, n) == ArticleTextFrom(AsList(DictGet(d, K("articles"), None_)), 1, n)

Label(index, name) == [index |-> index, name |-> name]

\* articles_count as the number of entries that parse as integers
LocationCountingInts(title, chapter, section, articles) ==
    [t |-> "dict", title |-> title, chapter |-> chapter, section |-> section,
     container_articles |-> articles,
     articles_count |-> Cardinality(IntsOf(articles)),
     articles_range |-> MinMaxInt(articles)]

Location(title, chapter, section, articles) ==
    [t |-> "dict", title |-> title, chapter |-> chapter, section |-> section,
     container_articles |-> articles,
     articles_count |-> Len(articles),
     articles_range |-> MinMaxInt(articles)]

NoLocation ==
    [t |-> "dict", title |-> None_, chapter |-> None_, section |-> None_,
     container_articles |-> <<>>,
     articles_count |-> 0,
     articles_range |-> <<None_, None_>>]

\* one container during the search: an exception of its key, its name or its
\* article list leaves the search; `hit` is returned when the list holds n;
\* otherwise the search goes on with `rest`
Probe(n, index, name, arts, raised, hit, rest) ==
    IF IsRaise(index) THEN index
    ELSE IF IsRaise(name) THEN name
    ELSE IF IsRaise(raised) THEN raised
    ELSE IF n \in IntsOf(arts) THEN hit
    ELSE rest

\* the loop over the children returned, or raised; otherwise the search goes on
Descend(inner, rest) == IF IsRaise(inner) \/ inner.title # None_ THEN inner ELSE rest

RECURSIVE FindInSections(_, _, _, _, _)
FindInSections(sections, i, n, title, chapter) ==
    IF i > Len(sections) THEN NoLocation
    ELSE IF Skipped(sections[i]) THEN FindInSections(sections, i + 1, n, title, chapter)
    ELSE
        LET payload == PayloadOf(sections[i])
            index == SuffixNumber(FirstKey(sections[i]))
            name == NameLenient(payload)
            arts == AsList(PayloadGet(payload, "articles", None_))
        IN
        Probe(n, index, name, arts, AsIntRaise(arts),
              Location(title, chapter, Label(index.s, name.s), arts),
              FindInSections(sections, i + 1, n, title, chapter))

RECURSIVE FindInChapters(_, _, _, _)
\* the sections of a chapter are searched before its direct articles
FindInChaptersSectionsFirst(chapters, i, n, title) ==
    IF i > Len(chapters) THEN NoLocation
    ELSE IF Skipped(chapters[i]) THEN FindInChapters(chapters, i + 1, n, title)
    ELSE
        LET payload == PayloadOf(chapters[i])
            index == SuffixNumber(FirstKey(chapters[i]))
            name == NameLenient(payload)
            arts == AsList(PayloadGet(payload, "articles", None_))
            inner == FindInSections(AsList(PayloadGet(payload, "sections", None_)), 1, n,
                                    title, Label(index.s, name.s))
        IN
        IF IsRaise(index) THEN index
        ELSE IF IsRaise(name) THEN name
        ELSE Descend(inner,
                     Probe(n, index, name, arts, AsIntRaise(arts),
                           Location(title, Label(index.s, name.s), None_, arts),
                           FindInChapters(chapters, i + 1, n, title)))

FindInChapters(chapters, i, n, title) ==
    IF i > Len(chapters) THEN NoLocation
    ELSE IF Skipped(chapters[i]) THEN FindInChapters(chapters, i + 1, n, title)
    ELSE
        LET payload == PayloadOf(chapters[i])
            index == SuffixNumber(FirstKey(chapters[i]))
            name == NameLenient(payload)
            arts == AsList(PayloadGet(payload, "articles", None_))
            inner == FindInSections(AsList(PayloadGet(payload, "sections", None_)), 1, n,
                                    title, Label(index.s, name.s))
        IN
        Probe(n, index, name, arts, AsIntRaise(arts),
              Location(title, Label(index.s, name.s), None_, arts),
              Descend(inner, FindInChapters(chapters, i + 1, n, title)))

RECURSIVE FindInTitles(_, _, _)
FindInTitles(titles, i, n) ==
    IF i > Len(titles) THEN NoLocation
    ELSE IF Skipped(titles[i]) THEN FindInTitles(titles, i + 1, n)
    ELSE
        LET payload == PayloadOf(titles[i])
            index == SuffixNumber(FirstKey(titles[i]))
            name == NameLenient(payload)
            arts == AsList(PayloadGet(payload, "articles", None_))
            inner == FindInChapters(AsList(PayloadGet(payload, "chapters", None_)), 1, n,
                                    Label(index.s, name.s))
        IN
        Probe(n, index, name, arts, AsIntRaise(arts),
              Location(Label(index.s, name.s), None_, None_, arts),
              Descend(inner, FindInTitles(titles, i + 1, n)))

\* _find_article_location
FindArticleLocation(d, n) == FindInTitles(AsList(DictGet(d, K("titles"), None_)), 1, n)

InvalidMessage == <<"Invalid article_number: expected a positive integer.">>

NotFoundMessage(n) == <<"Article ", ToString(n), " not found in data.yaml.">>

ContextLine(prefix, label) == <<prefix, " ">> \o label.index \o <<" : ">> \o label.name

ContainerLine(loc) ==
    <<"- Le meme bloc contient ", ToString(loc.articles_count), " article(s) (plage ">>
    \o PyStr(loc.articles_range[1]) \o <<" a ">> \o PyStr(loc.articles_range[2])
    \o <<") : ">> \o FormatArticleNumbers(loc.container_articles) \o <<".">>

\* the container line appended without `if container_articles`
ArticlePartsAlwaysContainer(n, text, loc) ==
    << <<"Article ", ToString(n)>>, <<>>, <<"Texte :">>, text, <<>>,
       <<"Contexte (structure) :">> >>
    \o (IF loc.title # None_ THEN <<ContextLine("- Titre", loc.title)>> ELSE <<>>)
    \o (IF loc.chapter # None_ THEN <<ContextLine("- Chapitre", loc.chapter)>> ELSE <<>>)
    \o (IF loc.section # None_ THEN <<ContextLine("- Section", loc.section)>> ELSE <<>>)
    \o <<ContainerLine(loc)>>

\* the parts list built after a successful text lookup
ArticleParts(n, text, loc) ==
    << <<"Article ", ToString(n)>>, <<>>, <<"Texte :">>, text, <<>>,
       <<"Contexte (structure) :">> >>
    \o (IF loc.title # None_ THEN <<ContextLine("- Titre", loc.title)>> ELSE <<>>)
    \o (IF loc.chapter # None_ THEN <<ContextLine("- Chapitre", loc.chapter)>> ELSE <<>>)
    \o (IF loc.section # None_ THEN <<ContextLine("- Section", loc.section)>> ELSE <<>>)
    \o (IF loc.container_articles # <<>> THEN <<ContainerLine(loc)>> ELSE <<>>)

\* `if text is None`: an empty text counts as found
TextMissingIsNone(text) == text = None_

\* `if not text`
TextMissing(text) == ~Truthy(text)

\* `if n is None or n <= 0`
InvalidNumber(n) == n = None_ \/ n.i <= 0

\* get_article_by_number once loc = _find_article_location(data, n) is known
WithLocation(n, text, loc) ==
    IF IsRaise(loc) THEN [ret |-> loc, location |-> None_]
    ELSE [ret |-> Str_(JoinWith(<<"\n">>, ArticleParts(n, text, loc))), location |-> loc]

\* get_article_by_number once text = _article_text_by_number(data, n) is known
WithText(d, n, text) ==
    IF IsRaise(text) THEN [ret |-> text, location |-> None_]
    ELSE IF TextMissing(text) THEN [ret |-> Str_(NotFoundMessage(n)), location |-> None_]
    ELSE WithLocation(n, text.s, FindArticleLocation(d, n))

\* get_article_by_number once n = _as_int(article_number) is known
WithNumber(d, n) ==
    IF IsRaise(n) THEN [ret |-> n, location |-> None_]
    ELSE IF InvalidNumber(n) THEN [ret |-> Str_(InvalidMessage), location |-> None_]
    ELSE WithText(d, n.i, ArticleTextByNumber(d, n.i))

\* get_article_by_number(article_number) on the loaded data: [ret, location]
RunGetArticleByNumber(d, article_number) == WithNumber(d, AsInt(article_number))

GetArticleByNumber(d, article_number) == RunGetArticleByNumber(d, article_number).ret

-----------------------------------------------------------------------------
(* get_work_code_structure. A partial outline is [t |-> "lines", ls |-> the *)
(* lines appended so far]. The accents of the French literals are dropped.  *)

Lines(ls) == [t |-> "lines", ls |-> ls]

\* what the code after `first` appends, unless `first` raised
Then(first, rest) ==
    IF IsRaise(first) THEN first
    ELSE IF IsRaise(rest) THEN rest
    ELSE Lines(first.ls \o rest.ls)

RECURSIVE CollectFrom(_, _)
\* the article lists are gathered from the last section to the first
CollectFromLast(sections, i) ==
    IF i > Len(sections) THEN Lines(<<>>)
    ELSE IF Skipped(sections[i]) THEN CollectFrom(sections, i + 1)
    ELSE
        LET arts == PayloadGet(PayloadOf(sections[i]), "articles", None_) IN
        IF IsRaise(arts) THEN arts
        ELSE Then(CollectFrom(sections, i + 1), Lines(AsList(arts)))

CollectFrom(sections, i) ==
    IF i > Len(sections) THEN Lines(<<>>)
    ELSE IF Skipped(sections[i]) THEN CollectFrom(sections, i + 1)
    ELSE
        LET arts == PayloadGet(PayloadOf(sections[i]), "articles", None_) IN
        IF IsRaise(arts) THEN arts
        ELSE Then(Lines(AsList(arts)), CollectFrom(sections, i + 1))

\* _collect_articles_from_sections
CollectArticlesFromSections(sections) == CollectFrom(sections, 1)

Head_(prefix, index, name) == <<prefix>> \o index.s \o <<" : ">> \o name.s

SectionLine(index, name, arts) ==
    Head_("  - Section ", index, name)
    \o <<". Cette section contient ", ToString(Len(arts)), " article(s) : ">>
    \o FormatArticleNumbers(arts) \o <<".">>

RECURSIVE RenderSections(_, _)
RenderSections(sections, i) ==
    IF i > Len(sections) THEN Lines(<<>>)
    ELSE IF Skipped(sections[i]) THEN RenderSections(sections, i + 1)
    ELSE
        LET payload == PayloadOf(sections[i])
            index == SuffixNumber(FirstKey(sections[i]))
            name == NameStrict(payload)
            arts == AsList(PayloadGet(payload, "articles", None_))
        IN
        IF IsRaise(index) THEN index
        ELSE IF IsRaise(name) THEN name
        ELSE Then(Lines(<<SectionLine(index, name, arts)>>), RenderSections(sections, i + 1))

ChapterWithSectionsLine(index, name, sections, section_articles) ==
    Head_("- Chapitre ", index, name)
    \o <<". Ce chapitre contient ", ToString(Len(sections)), " section(s). ",
         "Au total, ces sections contiennent ", ToString(Len(section_articles)),
         " article(s) : ">>
    \o FormatArticleNumbers(section_articles) \o <<".">>

ChapterWithArticlesLine(index, name, arts) ==
    Head_("- Chapitre ", index, name)
    \o <<". Ce chapitre contient ", ToString(Len(arts)), " article(s) : ">>
    \o FormatArticleNumbers(arts) \o <<".">>

ChapterEmptyLine(index, name) ==
    Head_("- Chapitre ", index, name)
    \o <<". Ce chapitre ne contient ni sections ni articles listes.">>

SectionsHeader == <<"  Les sections sont :">>

\* the body of `for chapter_item in chapters` for one well-formed entry
ChapterBlock(item) ==
    LET payload == PayloadOf(item)
        index == SuffixNumber(FirstKey(item))
        name == NameStrict(payload)
        sections == AsList(PayloadGet(payload, "sections", None_))
        chapter_articles == AsList(PayloadGet(payload, "articles", None_))
        section_articles == CollectArticlesFromSections(sections)
    IN
    IF IsRaise(index) THEN index
    ELSE IF IsRaise(name) THEN name
    ELSE IF sections # <<>>
    THEN IF IsRaise(section_articles) THEN section_articles
         ELSE Then(Lines(<<ChapterWithSectionsLine(index, name, sections, section_articles.ls),
                           SectionsHeader>>),
                   RenderSections(sections, 1))
    ELSE IF chapter_articles # <<>>
    THEN Lines(<<ChapterWithArticlesLine(index, name, chapter_articles)>>)
    ELSE Lines(<<ChapterEmptyLine(index, name)>>)

RECURSIVE RenderChapters(_, _)
RenderChapters(chapters, i) ==
    IF i > Len(chapters) THEN Lines(<<>>)
    ELSE IF Skipped(chapters[i]) THEN RenderChapters(chapters, i + 1)
    ELSE Then(ChapterBlock(chapters[i]), RenderChapters(chapters, i + 1))

TitleWithChaptersLine(index, name, chapters) ==
    Head_("Titre ", index, name)
    \o <<". Ce titre contient ", ToString(Len(chapters)), " chapitre(s), qui sont :">>

TitleWithArticlesLine(index, name, arts) ==
    Head_("Titre ", index, name)
    \o <<". Ce titre ne contient pas de chapitres et contient directement ",
         ToString(Len(arts)), " article(s) : ">>
    \o FormatArticleNumbers(arts) \o <<".">>

TitleEmptyLine(index, name) ==
    Head_("Titre ", index, name)
    \o <<". Ce titre ne contient ni chapitres ni articles listes.">>

\* the branches of the title swapped: direct articles before chapters
TitleBlockArticlesFirst(item) ==
    LET payload == PayloadOf(item)
        index == SuffixNumber(FirstKey(item))
        name == NameStrict(payload)
        chapters == AsList(PayloadGet(payload, "chapters", None_))
        direct_articles == AsList(PayloadGet(payload, "articles", None_))
    IN
    IF IsRaise(index) THEN index
    ELSE IF IsRaise(name) THEN name
    ELSE IF direct_articles # <<>>
    THEN Lines(<<TitleWithArticlesLine(index, name, direct_articles), <<>> >>)
    ELSE IF chapters # <<>>
    THEN Then(Lines(<<TitleWithChaptersLine(index, name, chapters)>>),
              Then(RenderChapters(chapters, 1), Lines(<< <<>> >>)))
    ELSE Lines(<<TitleEmptyLine(index, name), <<>> >>)

\* the direct-articles branch without its `outline.append("")`
TitleBlockNoBlank(item) ==
    LET payload == PayloadOf(item)
        index == SuffixNumber(FirstKey(item))
        name == NameStrict(payload)
        chapters == AsList(PayloadGet(payload, "chapters", None_))
        direct_articles == AsList(PayloadGet(payload, "articles", None_))
    IN
    IF IsRaise(index) THEN index
    ELSE IF IsRaise(name) THEN name
    ELSE IF chapters # <<>>
    THEN Then(Lines(<<TitleWithChaptersLine(index, name, chapters)>>),
              Then(RenderChapters(chapters, 1), Lines(<< <<>> >>)))
    ELSE IF direct_articles # <<>>
    THEN Lines(<<TitleWithArticlesLine(index, name, direct_articles)>>)
    ELSE Lines(<<TitleEmptyLine(index, name), <<>> >>)

\* the body of `for title_item in titles` for one well-formed entry
TitleBlock(item) ==
    LET payload == PayloadOf(item)
        index == SuffixNumber(FirstKey(item))
        name == NameStrict(payload)
        chapters == AsList(PayloadGet(payload, "chapters", None_))
        direct_articles == AsList(PayloadGet(payload, "articles", None_))
    IN
    IF IsRaise(index) THEN index
    ELSE IF IsRaise(name) THEN name
    ELSE IF chapters # <<>>
    THEN Then(Lines(<<TitleWithChaptersLine(index, name, chapters)>>),
              Then(RenderChapters(chapters, 1), Lines(<< <<>> >>)))
    ELSE IF direct_articles # <<>>
    THEN Lines(<<TitleWithArticlesLine(index, name, direct_articles), <<>> >>)
    ELSE Lines(<<TitleEmptyLine(index, name), <<>> >>)

RECURSIVE RenderTitles(_, _)
RenderTitles(titles, i) ==
    IF i > Len(titles) THEN Lines(<<>>)
    ELSE IF Skipped(titles[i]) THEN RenderTitles(titles, i + 1)
    ELSE Then(TitleBlock(titles[i]), RenderTitles(titles, i + 1))

NoStructure == <<"(Aucune structure trouvee)">>

\* `return outline`, without the fallback
GetWorkCodeStructureNoFallback(d) ==
    LET outline == RenderTitles(AsList(DictGet(d, K("titles"), None_)), 1) IN
    IF IsRaise(outline) THEN outline
    ELSE List_([i \in 1..Len(outline.ls) |-> Str_(outline.ls[i])])

\* get_work_code_structure() on the loaded data: the list of lines, each a str
GetWorkCodeStructure(d) ==
    LET outline == RenderTitles(AsList(DictGet(d, K("titles"), None_)), 1) IN
    IF IsRaise(outline) THEN outline
    ELSE IF outline.ls = <<>> THEN List_(<<Str_(NoStructure)>>)
    ELSE List_([i \in 1..Len(outline.ls) |-> Str_(outline.ls[i])])

-----------------------------------------------------------------------------
(* The documents yaml.safe_load can return for data.yaml, in the format of  *)
(* the configuration source: `titles`, a list of {title_<i>: {name,         *)
(* chapters | articles}}, chapters and sections alike, and `articles`, a    *)
(* list of {article_<n>: text}.                                             *)

\* the article lists of exactly e entries
ArtSeqs(e) == {[i \in 1..e |-> Int_(f[i])] : f \in [1..e -> 1..MaxN]}

RECURSIVE Forests(_, _, _)
\* the outlines below `level` (1 titles, 2 chapters, 3 sections) of exactly
\* w containers and e article entries: sequences of [arts, kids]
Forests(level, w, e) ==
    IF level > 3 \/ w = 0
    THEN IF w = 0 /\ e = 0 THEN {<<>>} ELSE {}
    ELSE UNION {
           {<<[arts |-> a, kids |-> k]>> \o rest :
               a \in ArtSeqs(c[3]),
               k \in Forests(level + 1, c[1] - 1, c[2] - c[3]),
               rest \in Forests(level, w - c[1], e - c[2])} :
           c \in {x \in (1..w) \X (0..e) \X (0..e) : x[3] <= x[2]}}

Prefix(level) == CASE level = 1 -> "title" [] level = 2 -> "chapter" [] OTHER -> "section"

KidsField(level) == IF level = 1 THEN "chapters" ELSE "sections"

\* the names of the model's documents: by level and position; padded with
\* whitespace, absent, or blank
NameField(level, i) ==
    CASE level = 1 /\ i = 1 -> << <<K("name"), Str_(<<" ", "Dispositions generales", " ">>)>> >>
      [] level = 1 /\ i = 2 -> <<>>
      [] level = 1 -> << <<K("name"), Str_(<<"Du contrat de travail">>)>> >>
      [] level = 2 /\ i = 1 -> << <<K("name"), Str_(<<"Du salaire">>)>> >>
      [] level = 2 /\ i = 2 -> << <<K("name"), Str_(<<" ">>)>> >>
      [] level = 2 -> << <<K("name"), Str_(<<"Des conges">>)>> >>
      [] level = 3 /\ i = 1 -> << <<K("name"), Str_(<<"Generalites">>)>> >>
      [] OTHER -> << <<K("name"), Str_(<<>>)>> >>

RECURSIVE Items(_, _)
\* the list of single-key mappings of an outline
Items(level, forest) ==
    [i \in 1..Len(forest) |->
        Dict_(<< <<Str_(<<Prefix(level), "_", ToString(i)>>),
                   Dict_(NameField(level, i)
                         \o (IF forest[i].kids # <<>>
                             THEN << <<K(KidsField(level)), List_(Items(level + 1, forest[i].kids))>> >>
                             ELSE <<>>)
                         \o (IF forest[i].arts # <<>>
                             THEN << <<K("articles"), List_(forest[i].arts)>> >>
                             ELSE <<>>))>> >>)]

\* the outlines of at most w containers and e entries
Outlines(w, e) ==
    UNION {{List_(Items(1, f)) : f \in Forests(1, c[1], c[2])} : c \in (0..w) \X (0..e)}

ArticleKey(n) == Str_(<<"article", "_", ToString(n)>>)

ArticleTexts == {Str_(<<"Le salaire est du.", " ">>), Str_(<<" ">>), Str_(<<>>)}

ArticleItems == {Dict_(<< <<ArticleKey(n), txt>> >>) : n \in 1..MaxN, txt \in ArticleTexts}

\* the lists of at most two article texts
TextLists ==
    {List_(<<>>)} \cup {List_(<<a>>) : a \in ArticleItems}
    \cup {List_(<<a, b>>) : a \in ArticleItems, b \in ArticleItems}

\* every article of 1..MaxN with a text of its own
FullTexts ==
    List_([n \in 1..MaxN |-> Dict_(<< <<ArticleKey(n), Str_(<<"Texte", " ", ToString(n)>>)>> >>)])

Document(titles, articles) == Dict_(<< <<K("titles"), titles>>, <<K("articles"), articles>> >>)

\* entries the parsers skip: a str, an empty mapping
SkippedItems == {Str_(<<"junk">>), Dict_(<<>>), None_}

PlainTitle == Items(1, <<[arts |-> <<Int_(1)>>, kids |-> <<>>]>>)[1]

\* `titles` values with nothing or little to render
SparseTitles ==
    {None_, Str_(<<"junk">>)}
    \cup {List_(<<a>>) : a \in SkippedItems}
    \cup {List_(<<a, b>>) : a \in SkippedItems \cup {PlainTitle}, b \in SkippedItems \cup {PlainTitle}}

PlainSection(i, arts) ==
    Dict_(<< <<Str_(<<"section", "_", ToString(i)>>), Dict_(<< <<K("articles"), List_(arts)>> >>)>> >>)

\* `sections` values mixing skipped and well-formed entries
SparseSections ==
    {List_(<<a, PlainSection(1, <<Int_(2)>>), b, PlainSection(2, x)>>) :
        a \in SkippedItems, b \in SkippedItems, x \in {<<>>, <<Int_(1)>>}}

\* a title whose chapters mix skipped and well-formed entries
SparseNested ==
    {List_(<<Dict_(<< <<Str_(<<"title", "_", "1">>),
                      Dict_(<< <<K("chapters"),
                                 List_(<<a, Dict_(<< <<Str_(<<"chapter", "_", "1">>),
                                                      Dict_(<< <<K("sections"), ss>> >>)>> >>)>>)>> >>)>> >>)>>) :
        a \in SkippedItems, ss \in SparseSections}

Documents ==
    {Document(t, FullTexts) : t \in Outlines(MaxNodes, MaxEntries)}
    \cup {Document(t, a) : t \in Outlines(1, 1), a \in TextLists}
    \cup {Document(t, FullTexts) : t \in SparseTitles \cup SparseNested}

-----------------------------------------------------------------------------
(* Documents outside the format: what a hand-edited data.yaml can hold.     *)

\* article lists with entries that are no int
LooseArticles ==
    {List_(<<Int_(1)>>), List_(<<None_, Int_(2)>>), List_(<<Str_(<<"2">>), Str_(<<"bis">>)>>),
     List_(<<Inf_, Int_(1)>>), List_(<<Int_(1), Inf_>>), Str_(<<"junk">>)}

LooseNames == {None_, Int_(7), Str_(<<"Nom">>)}

\* payloads: null, not a mapping, or a mapping with fields of any type
LoosePayloads ==
    {None_, Str_(<<"junk">>), List_(<<Int_(1)>>)}
    \cup {Dict_(nm \o ar) :
            nm \in {<<>>} \cup {<< <<K("name"), v>> >> : v \in LooseNames},
            ar \in {<<>>} \cup {<< <<K("articles"), v>> >> : v \in LooseArticles}}

\* keys: as the format has them, without "_", or no str
LooseKeys(level) == {Str_(<<Prefix(level), "_", "1">>), Str_(<<"preambule">>), Int_(1)}

\* entries at `level`: skipped ones, single-key ones, one with a second key
LooseItems(level) ==
    SkippedItems
    \cup {Dict_(<< <<k, p>> >>) : k \in LooseKeys(level), p \in LoosePayloads}
    \cup {Dict_(<< <<Str_(<<Prefix(level), "_", "1">>), Dict_(<< <<K("articles"), List_(<<Int_(1)>>)>> >>)>>,
                   <<Str_(<<Prefix(level), "_", "2">>), Dict_(<< <<K("articles"), List_(<<Int_(2)>>)>> >>)>> >>)}

WrapIn(level, kids) ==
    Dict_(<< <<Str_(<<Prefix(level), "_", "1">>),
               Dict_(<< <<K("name"), Str_(<<"Nom">>)>>, <<K(KidsField(level)), List_(kids)>> >>)>> >>)

\* a title holding the loose entry at level 1, 2 or 3
LooseTitles ==
    LooseItems(1)
    \cup {WrapIn(1, <<c>>) : c \in LooseItems(2)}
    \cup {WrapIn(1, <<WrapIn(2, <<x>>)>>) : x \in LooseItems(3)}

OtherTitle == Dict_(<< <<Str_(<<"title", "_", "2">>), Dict_(<< <<K("articles"), List_(<<Int_(1), Int_(2)>>)>> >>)>> >>)

LooseTextItems ==
    SkippedItems
    \cup {Dict_(<< <<k, v>> >>) :
            k \in {ArticleKey(1), Str_(<<"1">>), Str_(<<"article", "_", "bis">>), Int_(1)},
            v \in {None_, Int_(5), Str_(<<"Texte">>)}}

LooseTextLists ==
    {None_} \cup {List_(<<a>>) : a \in LooseTextItems}
    \cup {List_(<<a, b>>) : a \in LooseTextItems, b \in LooseTextItems}

LooseDocuments ==
    {Document(List_(<<t>>), FullTexts) : t \in LooseTitles}
    \cup {Document(List_(<<t, OtherTitle>>), FullTexts) : t \in LooseTitles}
    \cup {Document(List_(<<OtherTitle, t>>), FullTexts) : t \in LooseTitles}
    \cup {Document(List_(<<OtherTitle>>), a) : a \in LooseTextLists}

-----------------------------------------------------------------------------
(* The tool layer: the agent calls the two tools on the installed data.yaml. *)

\* the article_number values a call may carry
ArgVals ==
    {Int_(k) : k \in (0 - 1)..(MaxN + 1)}
    \cup {Float_(1, TRUE), Str_(<<"2">>), Str_(<<"abc">>), None_, Inf_}

NoCall == [op |-> "none"]

Callers == 1..MaxCallers

\* a caller between two calls: no call, no locals; `done` is its last
\* completed call with what it returned
IdleCaller == [pc |-> "idle", call |-> NoCall, doc |-> None_, i |-> 0, outline |-> None_,
               done |-> None_]

NoCallers == callers = [c \in Callers |-> IdleCaller]

ToolInit ==
    /\ data \in Documents
    /\ call = NoCall
    /\ result = None_
    /\ location = None_

\* the agent invokes get_article_by_number(arg)
CallGetArticleByNumber(arg) ==
    /\ call' = [op |-> "get_article_by_number", arg |-> arg]
    /\ \E run \in {RunGetArticleByNumber(data, arg)} :
          /\ result' = run.ret
          /\ location' = run.location
    /\ UNCHANGED data

\* the agent invokes get_work_code_structure()
CallGetWorkCodeStructure ==
    /\ call' = [op |-> "get_work_code_structure"]
    /\ result' = GetWorkCodeStructure(data)
    /\ location' = None_
    /\ UNCHANGED data

HttpIdle ==
    /\ fbApp = FALSE
    /\ req = None_
    /\ resp = None_

Init == ToolInit /\ HttpIdle /\ NoCallers

Next ==
    \/ \E arg \in ArgVals : CallGetArticleByNumber(arg) /\ UNCHANGED <<httpVars, callerVars>>
    \/ CallGetWorkCodeStructure /\ UNCHANGED <<httpVars, callerVars>>

Spec == Init /\ [][Next]_vars

\* the same tool layer over a data.yaml outside the format
LooseInit ==
    /\ data \in LooseDocuments
    /\ call = NoCall
    /\ result = None_
    /\ location = None_
    /\ HttpIdle
    /\ NoCallers

\* the article numbers the agent's schema lets through: ints
IntArgs == {Int_(k) : k \in 0..(MaxN + 1)}

LooseNext ==
    \/ \E arg \in IntArgs : CallGetArticleByNumber(arg) /\ UNCHANGED <<httpVars, callerVars>>
    \/ CallGetWorkCodeStructure /\ UNCHANGED <<httpVars, callerVars>>

LooseSpec == LooseInit /\ [][LooseNext]_vars

-----------------------------------------------------------------------------
(* POST /agent/chat/stream behind the App Check dependency. fbApp: the      *)
(* process holds firebase_admin's default app. req: the request being       *)
(* served, with what its dependency saw. resp: the response so far.         *)

GoodToken == <<"hdr", ".", "pay", ".", "sig">>

\* the X-Firebase-AppCheck header of a request: absent (None) or a str
HeaderVals ==
    {None_, Str_(<<>>), Str_(<<"abc">>),
     Str_(<<"hdr", ".", "pay", ".", "bad">>),
     Str_(GoodToken), Str_(<<"Bearer", " ">> \o GoodToken)}

\* token.lower().startswith("bearer ")
StartsWithBearer(toks) ==
    Len(toks) >= 2 /\ toks[1] \in {"Bearer", "bearer", "BEARER"} /\ toks[2] = " "

\* normalize_app_check_token
NormalizeAppCheckToken(raw) ==
    IF raw = <<>> THEN <<>>
    ELSE LET token == Strip(raw) IN
         IF StartsWithBearer(token) THEN Strip(SubSeq(token, 3, Len(token))) ELSE token

\* is_jwt_like: bool(token) and token.count(".") == 2
IsJwtLike(token) ==
    token # <<>> /\ Cardinality({i \in 1..Len(token) : token[i] = "."}) = 2

\* safe_token_debug
SafeTokenDebug(token) ==
    IF token = <<>> THEN <<"missing">>
    ELSE <<"length=", ToString(Len(token)), " segments=",
           ToString(Cardinality({i \in 1..Len(token) : token[i] = "."}) + 1)>>

\* initialize_firebase: firebase_admin.initialize_app raises ValueError when the
\* default app exists already. [ret, fb]: what it returns or raises, and fbApp after
InitializeFirebase(fb) ==
    IF fb THEN [ret |-> Raise("ValueError"), fb |-> TRUE]
    ELSE [ret |-> None_, fb |-> TRUE]

Claims == Dict_(<< <<K("sub"), Str_(<<"app-id">>)>> >>)

\* app_check.verify_token: the claims of a token the service issued, ValueError otherwise
AppCheckVerifyToken(token) == IF token = GoodToken THEN Claims ELSE Raise("ValueError")

\* verify_app_check_token
VerifyAppCheckToken(token, fb) ==
    LET init == InitializeFirebase(fb) IN
    IF IsRaise(init.ret) THEN init
    ELSE [ret |-> AppCheckVerifyToken(token), fb |-> init.fb]

\* verify_app_check_token_safe: the tuple (claims, error_message)
VerifyAppCheckTokenSafe(raw_token, fb) ==
    LET token == NormalizeAppCheckToken(raw_token) IN
    IF token = <<>>
    THEN [ret |-> Tuple_(<<None_, Str_(<<"Missing App Check token">>)>>), fb |-> fb]
    ELSE IF ~IsJwtLike(token)
    THEN [ret |-> Tuple_(<<None_, Str_(<<"Token is not JWT-like (expected 3 segments). ">>
                                        \o SafeTokenDebug(token))>>),
          fb |-> fb]
    ELSE
        LET v == VerifyAppCheckToken(token, fb) IN
        IF IsRaise(v.ret)
        THEN [ret |-> Tuple_(<<None_, Str_(<<"Invalid App Check token: ", v.ret.exc>>)>>),
              fb |-> v.fb]
        ELSE [ret |-> Tuple_(<<v.ret, None_>>), fb |-> v.fb]

\* _verify_app_check: [status, detail, decoded, fb]; status 200 lets the endpoint run
VerifyAppCheck(header, fb) ==
    IF ~Truthy(header)
    THEN [status |-> 401, detail |-> "Missing App Check token", decoded |-> None_, fb |-> fb]
    ELSE
        LET v == VerifyAppCheckTokenSafe(header.s, fb) IN
        IF ~Truthy(v.ret)
        THEN [status |-> 401, detail |-> "Invalid App Check token", decoded |-> v.ret, fb |-> v.fb]
        ELSE [status |-> 200, detail |-> "", decoded |-> v.ret, fb |-> v.fb]

\* what agent.stream yields: a state whose last message has content, or has none
AgentEvents == {Str_(<<"Bonjour">>), Str_(<<>>)}

Served == IF resp = None_ THEN 0 ELSE resp.served

\* a request arrives with its X-Firebase-AppCheck header
ReceiveRequest(header) ==
    /\ req = None_
    /\ Served < MaxRequests
    /\ req' = [t |-> "request", header |-> header, stage |-> "depends", decoded |-> None_,
               yielded |-> 0]
    /\ resp' = [t |-> "response", status |-> 0, detail |-> "", events |-> <<>>,
                served |-> Served]
    /\ UNCHANGED fbApp

\* FastAPI resolves Depends(_verify_app_check): 401, or the endpoint returns
\* the StreamingResponse over event_iter()
ResolveDependency ==
    /\ req # None_ /\ req.stage = "depends"
    /\ LET v == VerifyAppCheck(req.header, fbApp) IN
       /\ fbApp' = v.fb
       /\ req' = [req EXCEPT !.decoded = v.decoded,
                             !.stage = IF v.status = 200 THEN "stream" ELSE "closed"]
       /\ resp' = [resp EXCEPT !.status = v.status, !.detail = v.detail]

\* event_iter: one event of agent.stream; a token event when it has content
StreamEvent(ev) ==
    /\ req # None_ /\ req.stage = "stream"
    /\ req.yielded < MaxEvents
    /\ req' = [req EXCEPT !.yielded = @ + 1]
    /\ resp' = [resp EXCEPT !.events = IF Truthy(ev) THEN Append(@, "token") ELSE @]
    /\ UNCHANGED fbApp

\* event_iter: agent.stream is exhausted, the done event ends the response
StreamDone ==
    /\ req # None_ /\ req.stage = "stream"
    /\ req' = [req EXCEPT !.stage = "closed"]
    /\ resp' = [resp EXCEPT !.events = Append(@, "done")]
    /\ UNCHANGED fbApp

\* event_iter: agent.stream raises; nothing catches it, the response ends there
StreamRaise ==
    /\ req # None_ /\ req.stage = "stream"
    /\ req' = [req EXCEPT !.stage = "closed"]
    /\ UNCHANGED <<resp, fbApp>>

\* the response is complete; the worker takes the next request
CloseRequest ==
    /\ req # None_ /\ req.stage = "closed"
    /\ req' = None_
    /\ resp' = [resp EXCEPT !.served = @ + 1]
    /\ UNCHANGED fbApp

HttpInit ==
    /\ data = Document(List_(<<>>), FullTexts)
    /\ call = NoCall
    /\ result = None_
    /\ location = None_
    /\ HttpIdle
    /\ NoCallers

HttpNext ==
    \/ \E h \in HeaderVals : ReceiveRequest(h) /\ UNCHANGED <<toolVars, callerVars>>
    \/ ResolveDependency /\ UNCHANGED <<toolVars, callerVars>>
    \/ \E ev \in AgentEvents : StreamEvent(ev) /\ UNCHANGED <<toolVars, callerVars>>
    \/ StreamDone /\ UNCHANGED <<toolVars, callerVars>>
    \/ StreamRaise /\ UNCHANGED <<toolVars, callerVars>>
    \/ CloseRequest /\ UNCHANGED <<toolVars, callerVars>>

HttpSpec == HttpInit /\ [][HttpNext]_vars

-----------------------------------------------------------------------------
(* The two tools called by concurrent callers (the agent's tool threads).   *)
(* A call is load_data, then the work on the caller's own locals, then the  *)
(* return; get_work_code_structure appends to its outline title by title.   *)

\* the calls the concurrent callers make
SharedCalls ==
    {[op |-> "get_work_code_structure"]}
    \cup {[op |-> "get_article_by_number", arg |-> Int_(k)] : k \in 1..MaxN}

SharedDocuments == {Document(t, FullTexts) : t \in Outlines(MaxSharedNodes, 1)}

\* load_data: the document yaml.safe_load builds from the configuration source
LoadData == data

\* the outline list kept from the caller's previous get_work_code_structure
NewOutlineKept(c) ==
    IF callers[c].done # None_ /\ callers[c].done.call.op = "get_work_code_structure"
    THEN Lines([i \in 1..Len(callers[c].done.ret.xs) |-> callers[c].done.ret.xs[i].s])
    ELSE Lines(<<>>)

\* `outline: List[str] = []`
NewOutline(c) == Lines(<<>>)

\* one outline list for all callers: that of the first caller rendering
OutlineOfShared(c) ==
    callers[CHOOSE d \in Callers :
                /\ callers[d].pc = "titles"
                /\ \A e \in Callers : callers[e].pc = "titles" => d <= e].outline

\* the outline list of caller c's call
OutlineOf(c) == callers[c].outline

\* `return outline or [...]`
OutlineOrFallback(outline) ==
    IF IsRaise(outline) THEN outline
    ELSE IF outline.ls = <<>> THEN List_(<<Str_(NoStructure)>>)
    ELSE List_([i \in 1..Len(outline.ls) |-> Str_(outline.ls[i])])

\* caller c enters a tool
Invoke(c, k) ==
    /\ callers[c].pc = "idle"
    /\ callers' = [callers EXCEPT ![c].pc = "load", ![c].call = k]
    /\ UNCHANGED <<toolVars, httpVars>>

\* data = load_data(current_dir / "data.yaml")
Load(c) ==
    /\ callers[c].pc = "load"
    /\ callers' = [callers EXCEPT
                     ![c].doc = LoadData,
                     ![c].pc = IF callers[c].call.op = "get_work_code_structure"
                               THEN "titles" ELSE "lookup",
                     ![c].i = 1,
                     ![c].outline = IF callers[c].call.op = "get_work_code_structure"
                                    THEN NewOutline(c) ELSE None_]
    /\ UNCHANGED <<toolVars, httpVars>>

\* one iteration of `for title_item in titles`
RenderTitle(c) ==
    LET titles == AsList(DictGet(callers[c].doc, K("titles"), None_)) IN
    /\ callers[c].pc = "titles"
    /\ callers[c].i <= Len(titles)
    /\ callers' = [callers EXCEPT
                     ![c].i = @ + 1,
                     ![c].outline = IF Skipped(titles[callers[c].i]) THEN OutlineOf(c)
                                    ELSE Then(OutlineOf(c), TitleBlock(titles[callers[c].i]))]
    /\ UNCHANGED <<toolVars, httpVars>>

\* the loop is over: get_work_code_structure returns
ReturnOutline(c) ==
    /\ callers[c].pc = "titles"
    /\ callers[c].i > Len(AsList(DictGet(callers[c].doc, K("titles"), None_)))
    /\ callers' = [callers EXCEPT
                     ![c] = [IdleCaller EXCEPT
                               !.done = [call |-> callers[c].call,
                                         ret |-> OutlineOrFallback(OutlineOf(c))]]]
    /\ UNCHANGED <<toolVars, httpVars>>

\* get_article_by_number after load_data, up to its return
ReturnArticle(c) ==
    /\ callers[c].pc = "lookup"
    /\ callers' = [callers EXCEPT
                     ![c] = [IdleCaller EXCEPT
                               !.done = [call |-> callers[c].call,
                                         ret |-> GetArticleByNumber(callers[c].doc,
                                                                    callers[c].call.arg)]]]
    /\ UNCHANGED <<toolVars, httpVars>>

SharedInit ==
    /\ data \in SharedDocuments
    /\ call = NoCall
    /\ result = None_
    /\ location = None_
    /\ HttpIdle
    /\ NoCallers

SharedNext ==
    \E c \in Callers :
        \/ \E k \in SharedCalls : Invoke(c, k)
        \/ Load(c)
        \/ RenderTitle(c)
        \/ ReturnOutline(c)
        \/ ReturnArticle(c)

SharedSpec == SharedInit /\ [][SharedNext]_vars

-----------------------------------------------------------------------------
(* Reading a document and a result, for the properties below.               *)

IsGet == call.op = "get_article_by_number"

IsRender == call.op = "get_work_code_structure"

\* the call carried a positive int
PositiveIntArg == IsGet /\ call.arg.t = "int" /\ call.arg.i > 0

\* `sub` occurs in `toks`
ContainsToks(toks, sub) ==
    \E i \in 0..(Len(toks) - Len(sub)) : SubSeq(toks, i + 1, i + Len(sub)) = sub

HasPrefix(toks, pre) == Len(toks) >= Len(pre) /\ SubSeq(toks, 1, Len(pre)) = pre

RECURSIVE SplitLines(_)
\* s.split("\n")
SplitLines(toks) ==
    IF \A i \in 1..Len(toks) : toks[i] # "\n" THEN <<toks>>
    ELSE LET p == CHOOSE i \in 1..Len(toks) :
                    toks[i] = "\n" /\ \A j \in 1..(i - 1) : toks[j] # "\n"
         IN <<SubSeq(toks, 1, p - 1)>> \o SplitLines(SubSeq(toks, p + 1, Len(toks)))

RECURSIVE Flatten(_)
Flatten(ss) == IF ss = <<>> THEN <<>> ELSE Head(ss) \o Flatten(Tail(ss))

NotSkipped(item) == ~Skipped(item)

\* the entries of a list that are non-empty mappings
WellFormedOf(v) == SelectSeq(AsList(v), NotSkipped)

\* a field of the payload of a single-key mapping
Field(item, f) == DictGet(PayloadOf(item), K(f), None_)

\* the display index of an entry: what follows the last "_" of its key
KeyIndex(item) == AfterLastUnderscore(FirstKey(item).s)

\* the entries of the text mapping for article n, by position
TextItems == AsList(DictGet(data, K("articles"), None_))

EntriesFor(n) ==
    {i \in 1..Len(TextItems) : NotSkipped(TextItems[i]) /\ FirstKey(TextItems[i]) = ArticleKey(n)}

\* the text of the first entry for n, trimmed
FirstText(n) == Strip(TextItems[SetMin(EntriesFor(n))].kv[1][2].s)

Container(t, c, x, item) ==
    [title |-> t, chapter |-> c, section |-> x, arts |-> AsList(Field(item, "articles"))]

ChapterContainers(t, ch) ==
    LET secs == WellFormedOf(Field(ch, "sections")) IN
    <<Container(t, KeyIndex(ch), <<>>, ch)>>
    \o [k \in 1..Len(secs) |-> Container(t, KeyIndex(ch), KeyIndex(secs[k]), secs[k])]

TitleContainers(ti) ==
    LET chs == WellFormedOf(Field(ti, "chapters")) IN
    <<Container(KeyIndex(ti), <<>>, <<>>, ti)>>
    \o Flatten([j \in 1..Len(chs) |-> ChapterContainers(KeyIndex(ti), chs[j])])

\* the containers of the outline in pre-order: a title, then each of its
\* chapters followed by that chapter's sections
Containers ==
    LET ts == WellFormedOf(DictGet(data, K("titles"), None_)) IN
    Flatten([i \in 1..Len(ts) |-> TitleContainers(ts[i])])

\* the positions, in pre-order, of the containers listing article n
Hits(n) == {i \in 1..Len(Containers) : \E k \in 1..Len(Containers[i].arts) :
                                           Containers[i].arts[k] = Int_(n)}

IndexOf(label) == IF label = None_ THEN <<>> ELSE label.index

\* the lines get_work_code_structure returned
RLines == [i \in 1..Len(result.xs) |-> result.xs[i].s]

IsBlank(line) == line = <<>>

StartsWith(line, tok) == line # <<>> /\ line[1] = tok

RECURSIVE SplitBlocks(_)
\* the lines cut after each blank line
SplitBlocks(ls) ==
    IF ls = <<>> THEN <<>>
    ELSE IF \A i \in 1..Len(ls) : ~IsBlank(ls[i]) THEN <<ls>>
    ELSE LET p == CHOOSE i \in 1..Len(ls) : IsBlank(ls[i]) /\ \A j \in 1..(i - 1) : ~IsBlank(ls[j])
         IN <<SubSeq(ls, 1, p)>> \o SplitBlocks(SubSeq(ls, p + 1, Len(ls)))

Titles == WellFormedOf(DictGet(data, K("titles"), None_))

\* the name a container is displayed under
DisplayName(item) ==
    LET v == Field(item, "name") IN
    IF v = None_ THEN <<"(sans nom)">>
    ELSE IF Strip(v.s) = <<>> THEN <<"(sans nom)">>
    ELSE Strip(v.s)

ChaptersOf(item) == AsList(Field(item, "chapters"))

SectionsOf(item) == AsList(Field(item, "sections"))

ArticlesOf(item) == AsList(Field(item, "articles"))

\* the lines of a block that open a chapter
ChapterLinesOf(block) == SelectSeq(block, LAMBDA l : StartsWith(l, "- Chapitre "))

\* the position of the token `tok` in a line (0: absent)
TokenAt(line, tok) ==
    IF \E i \in 1..Len(line) : line[i] = tok
    THEN CHOOSE i \in 1..Len(line) : line[i] = tok /\ \A j \in 1..(i - 1) : line[j] # tok
    ELSE 0

\* in a line "... <marker><count> article(s) : <listing>.": the count, the listing
CountAfter(line, marker) == line[TokenAt(line, marker) + 1]

ListingAfter(line, marker) == SubSeq(line, TokenAt(line, marker) + 3, Len(line) - 1)

AggregateMarker == "Au total, ces sections contiennent "

SectionMarker == ". Cette section contient "

RECURSIVE SectionRun(_, _)
\* the section lines from position q on
SectionRun(ls, q) ==
    IF q <= Len(ls) /\ StartsWith(ls[q], "  - Section ")
    THEN <<ls[q]>> \o SectionRun(ls, q + 1)
    ELSE <<>>

\* the number a decimal token prints
NumberOf(tok) == CHOOSE k \in 0..(MaxEntries + MaxNodes + 4) : ToString(k) = tok

RECURSIVE SumSeq(_)
SumSeq(ns) == IF ns = <<>> THEN 0 ELSE Head(ns) + SumSeq(Tail(ns))

NonEmpty(x) == x # <<>>

-----------------------------------------------------------------------------
(* Properties.                                                              *)

\* C1: the agent stream of POST /agent/chat/stream runs (and a token or done
\* event is emitted) only for a request whose X-Firebase-AppCheck header is
\* present and for which verify_app_check_token_safe returned decoded claims;
\* a verification that returned (None, error) ends in 401.
C1_StreamOnlyWhenVerified ==
    req # None_ /\ (req.stage = "stream" \/ resp.events # <<>>)
        => /\ Truthy(req.header)
           /\ req.decoded # None_
           /\ req.decoded.xs[1] # None_

\* C2: get_article_by_number always returns a str and never raises, whatever
\* article_number is and whatever the loaded document holds.
C2_AlwaysReturnsString == IsGet => result.t = "str"

\* C3: for an article_number that is <= 0 or is no integer (a str, a float,
\* None), get_article_by_number returns exactly the invalid-input message.
C3_NonIntegerIsInvalid ==
    IsGet /\ (call.arg.t # "int" \/ call.arg.i <= 0) => result = Str_(InvalidMessage)

\* C4 as stated: for a positive integer n, the result is the not-found message
\* exactly when n has no entry in the text mapping.
C4_NotFoundIffNoEntry ==
    PositiveIntArg =>
        (result = Str_(<<"Article ", ToString(call.arg.i), " not found in data.yaml.">>)
            <=> EntriesFor(call.arg.i) = {})

\* C4 amended: for a positive integer n, the result is the not-found message
\* exactly when n has no entry in the text mapping or the text of its first
\* entry is empty once trimmed; the outline has no part in it.
C4_NotFoundIffNoText ==
    PositiveIntArg =>
        (result = Str_(<<"Article ", ToString(call.arg.i), " not found in data.yaml.">>)
            <=> (EntriesFor(call.arg.i) = {} \/ FirstText(call.arg.i) = <<>>))

\* C4 witness: a positive n listed in an outline container, without a text,
\* was looked up and reported as not found.
C4_Witness ==
    /\ PositiveIntArg
    /\ Hits(call.arg.i) # {}
    /\ EntriesFor(call.arg.i) = {}
    /\ result = Str_(<<"Article ", ToString(call.arg.i), " not found in data.yaml.">>)

\* what C5 promises of the result for article n
ArticleReturned(n) ==
    /\ result.t = "str"
    /\ ContainsToks(result.s, <<"Article ", ToString(n)>>)
    /\ ContainsToks(result.s, FirstText(n))
    /\ Hits(n) # {} =>
          \E i \in Hits(n), j \in 1..Len(SplitLines(result.s)) :
              HasPrefix(SplitLines(result.s)[j],
                        <<"- Titre", " ">> \o Containers[i].title \o <<" : ">>)

\* C5 as stated: for a positive integer n with an entry in the text mapping the
\* result contains "Article n" and the text, and the "- Titre" line of the
\* enclosing title when an outline container lists n.
C5_PresentArticleReturned ==
    PositiveIntArg /\ EntriesFor(call.arg.i) # {} => ArticleReturned(call.arg.i)

\* C5 amended: the same, for a positive integer n whose first entry in the
\* text mapping has a text that is not empty once trimmed.
C5_ArticleWithTextReturned ==
    PositiveIntArg /\ EntriesFor(call.arg.i) # {} /\ FirstText(call.arg.i) # <<>>
        => ArticleReturned(call.arg.i)

\* C5 witness: an article with a text, listed in a container, was looked up.
C5_Witness ==
    /\ PositiveIntArg
    /\ EntriesFor(call.arg.i) # {} /\ FirstText(call.arg.i) # <<>>
    /\ Hits(call.arg.i) # {}
    /\ result.t = "str"

\* C6: the container article lookup reports is the first one listing n in
\* pre-order (titles in stored order; a title's own list, then its chapters in
\* stored order; a chapter's own list, then its sections in stored order);
\* later containers listing n change nothing.
C6_FirstContainerInPreOrder ==
    PositiveIntArg /\ location # None_ =>
        IF Hits(call.arg.i) = {}
        THEN location.title = None_ /\ location.container_articles = <<>>
        ELSE LET first == Containers[SetMin(Hits(call.arg.i))] IN
             /\ IndexOf(location.title) = first.title
             /\ IndexOf(location.chapter) = first.chapter
             /\ IndexOf(location.section) = first.section
             /\ location.container_articles = first.arts

\* C6 witness: n is listed by two sections of one chapter, and was looked up.
C6_Witness ==
    /\ PositiveIntArg /\ location # None_
    /\ \E i \in Hits(call.arg.i), j \in Hits(call.arg.i) :
          /\ i < j
          /\ Containers[i].section # <<>> /\ Containers[j].section # <<>>
          /\ Containers[i].chapter = Containers[j].chapter
          /\ Containers[i].title = Containers[j].title

\* what C7 promises of block i, the block of title Titles[i]
ChapterBranchOnly(i) ==
    LET t == Titles[i]
        block == SplitBlocks(RLines)[i]
        chs == WellFormedOf(Field(t, "chapters"))
    IN
    /\ ChaptersOf(t) # <<>> /\ ArticlesOf(t) # <<>> =>
          /\ block[1] = <<"Titre ">> \o KeyIndex(t) \o <<" : ">> \o DisplayName(t)
                        \o <<". Ce titre contient ", ToString(Len(ChaptersOf(t))),
                             " chapitre(s), qui sont :">>
          /\ \A k \in 2..(Len(block) - 1) :
                \/ StartsWith(block[k], "- Chapitre ")
                \/ StartsWith(block[k], "  Les sections sont :")
                \/ StartsWith(block[k], "  - Section ")
    /\ ChaptersOf(t) # <<>> =>
          /\ Len(ChapterLinesOf(block)) = Len(chs)
          /\ \A j \in 1..Len(chs) :
                SectionsOf(chs[j]) # <<>> /\ ArticlesOf(chs[j]) # <<>> =>
                    HasPrefix(ChapterLinesOf(block)[j],
                              <<"- Chapitre ">> \o KeyIndex(chs[j]) \o <<" : ">>
                              \o DisplayName(chs[j])
                              \o <<". Ce chapitre contient ", ToString(Len(SectionsOf(chs[j]))),
                                   " section(s). ", AggregateMarker>>)

\* C7: in the outline, a title with chapters and direct articles is rendered
\* by its chapter branch only (its own article count and numbers are not in
\* its block), and a chapter with sections and direct articles by its section
\* branch only.
C7_ChildrenTakePrecedence ==
    IsRender /\ Titles # <<>> =>
        /\ Len(SplitBlocks(RLines)) = Len(Titles)
        /\ \A i \in 1..Len(Titles) : ChapterBranchOnly(i)

\* C7 witness: the outline of a title with chapters and direct articles, one
\* of the chapters with sections and direct articles, was rendered.
C7_Witness ==
    /\ IsRender
    /\ \E i \in 1..Len(Titles) :
          /\ ChaptersOf(Titles[i]) # <<>> /\ ArticlesOf(Titles[i]) # <<>>
          /\ \E j \in 1..Len(ChaptersOf(Titles[i])) :
                /\ NotSkipped(ChaptersOf(Titles[i])[j])
                /\ SectionsOf(ChaptersOf(Titles[i])[j]) # <<>>
                /\ ArticlesOf(ChaptersOf(Titles[i])[j]) # <<>>

\* C8: get_work_code_structure never returns an empty list: without a
\* well-formed title it returns exactly ["(Aucune structure trouvee)"], and
\* otherwise a "Titre" line for each well-formed title, in order.
C8_NeverEmpty ==
    IsRender =>
        /\ result.t = "list" /\ result.xs # <<>>
        /\ Titles = <<>> => result = List_(<<Str_(<<"(Aucune structure trouvee)">>)>>)
        /\ Titles # <<>> =>
              LET heads == SelectSeq(RLines, LAMBDA l : StartsWith(l, "Titre ")) IN
              /\ Len(heads) = Len(Titles)
              /\ \A i \in 1..Len(Titles) :
                    HasPrefix(heads[i], <<"Titre ">> \o KeyIndex(Titles[i]) \o <<" : ">>)

\* C8 witness: `titles` holds entries, none of them well-formed, and the
\* outline was asked for.
C8_Witness ==
    /\ IsRender
    /\ AsList(DictGet(data, K("titles"), None_)) # <<>>
    /\ Titles = <<>>
    /\ result.xs # <<>>

\* C9: every title block ends with exactly one blank line, whichever branch
\* rendered it; a title without chapters and with k >= 1 direct articles is
\* the line "Titre <index> : <name>. Ce titre ne contient pas de chapitres et
\* contient directement k article(s) : <numbers joined by ', '>." and a blank line.
C9_BlocksEndWithOneBlank ==
    IsRender /\ Titles # <<>> =>
        LET blocks == SplitBlocks(RLines) IN
        /\ Len(blocks) = Len(Titles)
        /\ \A i \in 1..Len(blocks) :
              /\ Len(blocks[i]) >= 2
              /\ IsBlank(blocks[i][Len(blocks[i])])
              /\ HasPrefix(blocks[i][1], <<"Titre ">> \o KeyIndex(Titles[i]) \o <<" : ">>)
              /\ ChaptersOf(Titles[i]) = <<>> /\ ArticlesOf(Titles[i]) # <<>> =>
                    blocks[i] =
                        << <<"Titre ">> \o KeyIndex(Titles[i]) \o <<" : ">>
                           \o DisplayName(Titles[i])
                           \o <<". Ce titre ne contient pas de chapitres et contient directement ",
                                ToString(Len(ArticlesOf(Titles[i]))), " article(s) : ">>
                           \o JoinWith(<<", ">>, [k \in 1..Len(ArticlesOf(Titles[i])) |->
                                                     <<ToString(ArticlesOf(Titles[i])[k].i)>>])
                           \o <<".">>,
                           <<>> >>

\* C9 witness: an outline with a title of each kind (with chapters, with
\* direct articles only, with neither) was rendered.
C9_Witness ==
    /\ IsRender
    /\ \E i \in 1..Len(Titles) : ChaptersOf(Titles[i]) # <<>>
    /\ \E i \in 1..Len(Titles) : ChaptersOf(Titles[i]) = <<>> /\ ArticlesOf(Titles[i]) # <<>>
    /\ \E i \in 1..Len(Titles) : ChaptersOf(Titles[i]) = <<>> /\ ArticlesOf(Titles[i]) = <<>>

\* the positions of the chapter lines that report sections
AggregateLines == {p \in 1..Len(RLines) : TokenAt(RLines[p], AggregateMarker) # 0}

\* C10: on the line of a chapter with sections, the listing is the listings of
\* the section lines beneath it, concatenated in order, and the count is the
\* sum of the counts printed on those section lines.
C10_AggregateMatchesSections ==
    IsRender =>
        \A p \in AggregateLines :
            LET secs == SectionRun(RLines, p + 2)
                listings == [k \in 1..Len(secs) |-> ListingAfter(secs[k], SectionMarker)]
                counts == [k \in 1..Len(secs) |-> NumberOf(CountAfter(secs[k], SectionMarker))]
            IN
            /\ RLines[p + 1] = <<"  Les sections sont :">>
            /\ ListingAfter(RLines[p], AggregateMarker)
                  = JoinWith(<<", ">>, SelectSeq(listings, NonEmpty))
            /\ CountAfter(RLines[p], AggregateMarker) = ToString(SumSeq(counts))

\* C10 witness: a chapter with two sections that both list articles was rendered.
C10_Witness ==
    /\ IsRender
    /\ \E p \in AggregateLines :
          LET secs == SectionRun(RLines, p + 2) IN
          /\ Len(secs) >= 2
          /\ \A k \in 1..Len(secs) : ListingAfter(secs[k], SectionMarker) # <<>>

\* the last line of the str get_article_by_number returned
LastLine == SplitLines(result.s)[Len(SplitLines(result.s))]

\* the positions of a list whose entry int() reads
Parsing(arts) == {i \in 1..Len(arts) : AsInt(arts[i]) # None_ /\ ~IsRaise(AsInt(arts[i]))}

\* C11: the container line of an article lookup reports the raw length of the
\* matched container's article list, the minimum and maximum over the entries
\* that parse as integers, and every entry of the list in stored order.
C11_CountIsRawRangeIsParsed ==
    IsGet /\ result.t = "str" /\ location # None_ /\ location.container_articles # <<>> =>
        LET arts == location.container_articles
            ints == {AsInt(arts[i]).i : i \in Parsing(arts)}
        IN
        LastLine = <<"- Le meme bloc contient ", ToString(Len(arts)), " article(s) (plage ",
                     ToString(SetMin(ints)), " a ", ToString(SetMax(ints)), ") : ">>
                   \o JoinWith(<<", ">>, [i \in 1..Len(arts) |-> PyStr(arts[i])])
                   \o <<".">>

\* C11 witness: an article was found in a container whose list holds an entry
\* that does not parse as an integer.
C11_Witness ==
    /\ IsGet /\ result.t = "str" /\ location # None_
    /\ location.container_articles # <<>>
    /\ Parsing(location.container_articles) # 1..Len(location.container_articles)

\* the lines every successful lookup of article n starts with
ArticleHeader(n) ==
    << <<"Article ", ToString(n)>>, <<>>, <<"Texte :">>, FirstText(n), <<>>,
       <<"Contexte (structure) :">> >>

\* the context prefixes expected for a container: its title, then its chapter
\* and its section when it has them
LevelPrefixes(c) ==
    << <<"- Titre", " ">> \o c.title \o <<" : ">> >>
    \o (IF c.chapter # <<>> THEN << <<"- Chapitre", " ">> \o c.chapter \o <<" : ">> >> ELSE <<>>)
    \o (IF c.section # <<>> THEN << <<"- Section", " ">> \o c.section \o <<" : ">> >> ELSE <<>>)

\* C12: an article with a text that no container lists is returned as its
\* header, "Texte :", the text and "Contexte (structure) :" with nothing after;
\* an article found in a container is followed by the lines of exactly the
\* levels of that container (Titre, then Chapitre, then Section) and by the
\* container line, which appears only then.
C12_ContextListsLevelsFound ==
    PositiveIntArg /\ EntriesFor(call.arg.i) # {} /\ FirstText(call.arg.i) # <<>> =>
        LET n == call.arg.i
            lines == SplitLines(result.s)
        IN
        /\ result.t = "str"
        /\ SubSeq(lines, 1, 6) = ArticleHeader(n)
        /\ Hits(n) = {} => Len(lines) = 6
        /\ Hits(n) # {} =>
              LET pre == LevelPrefixes(Containers[SetMin(Hits(n))]) IN
              /\ Len(lines) = 6 + Len(pre) + 1
              /\ \A k \in 1..Len(pre) : HasPrefix(lines[6 + k], pre[k])
              /\ HasPrefix(lines[Len(lines)], <<"- Le meme bloc contient ">>)

\* C12 witness: an article with a text, listed by no container of a non-empty
\* outline, was looked up.
C12_Witness ==
    /\ PositiveIntArg /\ EntriesFor(call.arg.i) # {} /\ FirstText(call.arg.i) # <<>>
    /\ Containers # <<>> /\ Hits(call.arg.i) = {}
    /\ result.t = "str"

\* a mapping with exactly one key
SingleKey(item) == IsDict(item) /\ Len(item.kv) = 1

RECURSIVE EntriesInScope(_, _)
\* the entries of a container list at `level` are of the kinds C13 speaks of:
\* no mapping, an empty mapping, or a mapping whose keys are strs and whose
\* payloads are null or mappings with name, articles and children absent,
\* null or of the expected type
EntriesInScope(xs, level) ==
    \A i \in 1..Len(xs) :
        Skipped(xs[i])
        \/ \A j \in 1..Len(xs[i].kv) :
              LET p == xs[i].kv[j][2]
                  name == DictGet(p, K("name"), None_)
                  arts == DictGet(p, K("articles"), None_)
                  kids == DictGet(p, K(KidsField(level)), None_)
              IN
              /\ IsStr(xs[i].kv[j][1])
              /\ \/ p = None_
                 \/ /\ IsDict(p)
                    /\ name = None_ \/ IsStr(name)
                    /\ arts = None_ \/ (IsList(arts) /\ \A k \in 1..Len(arts.xs) : arts.xs[k].t = "int")
                    /\ level < 3 =>
                          kids = None_ \/ (IsList(kids) /\ EntriesInScope(kids.xs, level + 1))

\* the document is one C13 speaks of
InScope ==
    /\ EntriesInScope(AsList(DictGet(data, K("titles"), None_)), 1)
    /\ \A i \in 1..Len(TextItems) :
          Skipped(TextItems[i])
          \/ \A j \in 1..Len(TextItems[i].kv) :
                IsStr(TextItems[i].kv[j][1]) /\ IsStr(TextItems[i].kv[j][2])

RECURSIVE WellFormedEntries(_, _)
\* a container list without the entries that are no single-key mappings, at
\* every level
WellFormedEntries(xs, level) ==
    LET keep == SelectSeq(xs, SingleKey) IN
    [i \in 1..Len(keep) |->
        LET p == keep[i].kv[1][2] IN
        IF ~IsDict(p) \/ level >= 3 THEN keep[i]
        ELSE Dict_(<< <<keep[i].kv[1][1],
                        Dict_([j \in 1..Len(p.kv) |->
                                 IF p.kv[j][1] = K(KidsField(level)) /\ IsList(p.kv[j][2])
                                 THEN <<p.kv[j][1],
                                        List_(WellFormedEntries(p.kv[j][2].xs, level + 1))>>
                                 ELSE p.kv[j]])>> >>)]

\* the document with only its well-formed single-key entries
WellFormedDocument ==
    Document(List_(WellFormedEntries(AsList(DictGet(data, K("titles"), None_)), 1)),
             List_(SelectSeq(TextItems, SingleKey)))

\* C13: in both tools an entry that is no well-formed single-key mapping (no
\* mapping, an empty mapping, a mapping with several keys) is skipped without
\* an error and adds nothing to the output, and an absent or null name,
\* chapters, sections, articles or payload does not make the call fail: the
\* call returns what it returns on the document without the malformed entries.
C13_MalformedEntriesSkipped ==
    InScope =>
        /\ IsRender => /\ ~IsRaise(result)
                       /\ result = GetWorkCodeStructure(WellFormedDocument)
        /\ IsGet => /\ ~IsRaise(result)
                    /\ result = GetArticleByNumber(WellFormedDocument, call.arg)

\* what a call returns when it runs alone on the configuration source
Alone(k) ==
    IF k.op = "get_work_code_structure" THEN GetWorkCodeStructure(data)
    ELSE GetArticleByNumber(data, k.arg)

\* C14: for an unchanged configuration source, successive calls of
\* get_work_code_structure return identical line sequences and successive
\* get_article_by_number(n) calls identical strings: whenever a caller
\* completes the call it completed before, or two callers completed the same
\* call, the results are equal.
C14_RepeatedCallsAgree ==
    /\ [](\A c \in Callers, d \in Callers :
            callers[c].done # None_ /\ callers[d].done # None_
            /\ callers[c].done.call = callers[d].done.call
                => callers[c].done.ret = callers[d].done.ret)
    /\ [][\A c \in Callers :
            callers[c].done # None_ /\ callers'[c].done # None_
            /\ callers'[c].done.call = callers[c].done.call
                => callers'[c].done.ret = callers[c].done.ret]_vars

\* C14 witness: a caller is about to return from the get_work_code_structure
\* call it completed before, which another caller completed too, on an
\* outline with titles.
C14_Witness ==
    \E c \in Callers, d \in Callers :
        /\ c # d
        /\ callers[c].done # None_ /\ callers[c].done.call = callers[c].call
        /\ callers[c].pc = "titles" /\ callers[c].i > 1
        /\ callers[c].outline.ls # <<>>
        /\ callers[d].done # None_ /\ callers[d].done.call = callers[c].call

\* C15: under every interleaving of concurrent calls each call works on the
\* document it loaded itself, a step of one caller changes neither the source
\* nor anything of another caller, and each call returns what it returns when
\* run alone.
C15_ConcurrentCallsIsolated ==
    /\ [](\A c \in Callers :
            /\ callers[c].pc \in {"titles", "lookup"} => callers[c].doc = data
            /\ callers[c].done # None_ => callers[c].done.ret = Alone(callers[c].done.call))
    /\ [][/\ data' = data
          /\ \A c \in Callers, d \in Callers :
                c # d /\ callers'[c] # callers[c] => callers'[d] = callers[d]]_vars

\* C15 witness: one caller is in the middle of rendering, with lines appended,
\* while another, which returned a result before, is inside a call too.
C15_Witness ==
    \E c \in Callers, d \in Callers :
        /\ c # d
        /\ callers[c].pc = "titles" /\ callers[c].i > 1 /\ callers[c].outline.ls # <<>>
        /\ callers[d].pc \in {"titles", "lookup"}
        /\ callers[d].done # None_

\* C16: every completed chat_stream response is zero or more "token" events
\* followed by exactly one terminal event, "done" when agent.stream is
\* exhausted and "error" when it raises.
C16_OneTerminalEvent ==
    req # None_ /\ req.stage = "closed" /\ resp.status = 200 =>
        /\ resp.events # <<>>
        /\ resp.events[Len(resp.events)] \in {"done", "error"}
        /\ \A i \in 1..(Len(resp.events) - 1) : resp.events[i] = "token"

\* C17: in one process every verify_app_check_token_safe call made with a
\* valid token returns (claims, None), whatever verifications came before it.
C17_ValidTokenAlwaysVerifies ==
    (/\ req # None_ /\ req.stage # "depends"
     /\ req.header.t = "str"
     /\ NormalizeAppCheckToken(req.header.s) = GoodToken)
        => req.decoded = Tuple_(<<Claims, None_>>)

\* the outline get_work_code_structure renders of the same source
OutlineLines ==
    LET o == GetWorkCodeStructure(data) IN
    IF IsRaise(o) THEN <<>> ELSE [i \in 1..Len(o.xs) |-> o.xs[i].s]

\* the start of the line that renders the container of `loc` with its own
\* articles, up to the count
OwnLineStart(loc) ==
    IF loc.section # None_
    THEN Head_("  - Section ", Str_(loc.section.index), Str_(loc.section.name)) \o <<SectionMarker>>
    ELSE IF loc.chapter # None_
    THEN Head_("- Chapitre ", Str_(loc.chapter.index), Str_(loc.chapter.name))
         \o <<". Ce chapitre contient ">>
    ELSE Head_("Titre ", Str_(loc.title.index), Str_(loc.title.name))
         \o <<". Ce titre ne contient pas de chapitres et contient directement ">>

\* line l renders the container of `loc` and lists article n
ListsIn(l, loc, n) ==
    LET start == OwnLineStart(loc) IN
    /\ HasPrefix(l, start)
    /\ Len(l) >= Len(start) + 3
    /\ l[Len(start) + 2] = " article(s) : "
    /\ \E k \in (Len(start) + 3)..Len(l) : l[k] = ToString(n)

\* C18: when the lookup of article n locates it in a container (a title, a
\* chapter or a section), the outline of get_work_code_structure has the
\* line of that container, listing n.
C18_ToolsAgree ==
    IsGet /\ location # None_ /\ location.title # None_ =>
        \E p \in 1..Len(OutlineLines) : ListsIn(OutlineLines[p], location, AsInt(call.arg).i)

TitleCountMarker == ". Ce titre contient "

ChapterCountMarker == ". Ce chapitre contient "

\* the chapter lines of the outline that announce sections
SectionCountLines ==
    {p \in 1..Len(RLines) :
        /\ StartsWith(RLines[p], "- Chapitre ")
        /\ TokenAt(RLines[p], ChapterCountMarker) # 0
        /\ TokenAt(RLines[p], " section(s). ") = TokenAt(RLines[p], ChapterCountMarker) + 2}

\* C19: in the outline, the chapter count on the line of a title with chapters
\* is the number of "- Chapitre" lines of that title's block, and the section
\* count on the line of a chapter with sections is the number of "  - Section"
\* lines beneath it.
C19_CountsMatchRenderedChildren ==
    IsRender /\ result.t = "list" =>
        /\ \A b \in 1..Len(SplitBlocks(RLines)) :
              TokenAt(SplitBlocks(RLines)[b][1], TitleCountMarker) # 0 =>
                  NumberOf(CountAfter(SplitBlocks(RLines)[b][1], TitleCountMarker))
                      = Len(ChapterLinesOf(SplitBlocks(RLines)[b]))
        /\ \A p \in SectionCountLines :
              NumberOf(CountAfter(RLines[p], ChapterCountMarker))
                  = Len(SectionRun(RLines, p + 2))

=============================================================================
